---- MODULE Spec2Model ----
(***************************************************************************)
(* The AMap (gaode) MCP tool server: five revisions of the same set of     *)
(* tool handlers.                                                           *)
(*   R0  src/src/index.ts                 (process.env, no helper)          *)
(*   R1  src/unnamed/part_000:1-150       (getApiKey, handleError)          *)
(*   R2  src/unnamed/part_000:152-240     (geocode, reverse_geocode only)   *)
(*   R3  src/unnamed/part_000:242-399     (amapFetch)                       *)
(*   R4  src/unnamed/part_000:401-560     (zod envelopes, weather_query)    *)
(* One invocation is: schema validation of the arguments, the handler up   *)
(* to its first await, one step per awaited fetch, the returned result.    *)
(* Texts are sequences of string tokens: a template literal is its fixed   *)
(* prefix followed by the tokens of the interpolated value; the message    *)
(* literals of the source (Chinese) are written as ASCII tokens, the       *)
(* original is quoted in the comment of each.                              *)
(* Three specifications share the handlers:                                *)
(*   Spec       one invocation at a time, every input                      *)
(*   EntrySpec  the HTTP entry point (export default fetch), in http       *)
(*   ConcSpec   two handlers in flight at once, in inv                     *)
(***************************************************************************)
EXTENDS Naturals, Sequences, FiniteSets, TLC

VARIABLES pc, rev, tool, args, params, ctx, requests, responses, result, http, inv

vars == <<pc, rev, tool, args, params, ctx, requests, responses, result, http, inv>>

----------------------------------------------------------------------------
(* Bounds of the model. *)

\* longest geocodes / lives list a provider response carries
MaxMatches == 2
\* longest POI list a provider response carries (the code keeps 3)
MaxPois == 4

----------------------------------------------------------------------------
(* JavaScript values. *)

\* a property that is not there: reading it yields undefined
ABSENT == "<undefined>"
\* a JSON value that is there and is not a string (a number)
NONSTR == "<number>"

\* Falsy with the empty string taken for a value
FalsyUndefinedOnly(v) == v = ABSENT

\* !v for a string-or-undefined v
Falsy(v) == v = ABSENT \/ v = ""

\* a JSON value of a payload field: absent, an array, a non-empty string, an object
JAbsent == [kind |-> "absent", items |-> <<>>]
JArray(s) == [kind |-> "array", items |-> s]
JString == [kind |-> "string", items |-> <<>>]
JObject == [kind |-> "object", items |-> <<>>]

\* a text: a defined string (its tokens), or undefined
Text(parts) == [def |-> TRUE, parts |-> parts]
Undefined == [def |-> FALSE, parts |-> <<>>]

\* `${...}` of a string-or-undefined value inside a template literal
Interp(v) == IF v = ABSENT THEN "undefined" ELSE v

\* a template literal `prefix${t}` where t is a text or undefined
Template(prefix, t) == Text(<<prefix>> \o (IF t.def THEN t.parts ELSE <<"undefined">>))

RECURSIVE PairTokens(_)
\* the members of an object literal, JSON.stringify drops undefined members
PairTokens(pairs) ==
    IF pairs = <<>> THEN <<>>
    ELSE (IF Head(pairs)[2] = ABSENT THEN <<>> ELSE Head(pairs))
         \o PairTokens(Tail(pairs))

\* JSON.stringify of an object given as its <<key, value>> members in order
StringifyPairs(pairs) == <<"{">> \o PairTokens(pairs) \o <<"}">>

\* JSON.stringify of a record, its keys in the provider's order
StringifyRecord(r, keys) == StringifyPairs([i \in 1..Len(keys) |-> <<keys[i], r[keys[i]]>>])

RECURSIVE ConcatAll(_)
ConcatAll(ss) == IF ss = <<>> THEN <<>> ELSE Head(ss) \o ConcatAll(Tail(ss))

\* JSON.stringify of an array of records, their keys in the provider's order
StringifyItems(items, keys) ==
    <<"[">> \o ConcatAll([i \in 1..Len(items) |-> StringifyRecord(items[i], keys)]) \o <<"]">>

\* JSON.stringify(v) of a payload field holding records: undefined for undefined
JsonStringify(v, keys) ==
    CASE v.kind = "absent" -> Undefined
      [] v.kind = "array" -> Text(StringifyItems(v.items, keys))
      [] v.kind = "string" -> Text(<<"\"x\"">>)
      [] OTHER -> Text(<<"{", "}">>)

\* Array.prototype.slice(0, n)
Slice0(s, n) == SubSeq(s, 1, IF Len(s) < n THEN Len(s) ELSE n)

\* all sequences over S of length 0..n
SeqsUpTo(S, n) == UNION {[1..k -> S] : k \in 0..n}

----------------------------------------------------------------------------
(* The provider's data: what a response envelope can carry. *)

GeocodeKeys == <<"formatted_address", "location", "adcode", "level", "province", "city", "district">>
G1 == [formatted_address |-> "addr1", location |-> "116.48,39.99", adcode |-> "110105",
       level |-> "level1", province |-> "prov1", city |-> "city1", district |-> "dist1"]
G2 == [formatted_address |-> "addr2", location |-> "121.47,31.23", adcode |-> "310101",
       level |-> "level2", province |-> "prov2", city |-> "city2", district |-> "dist2"]
\* a match that lacks fields the envelope schema declares
GBad == [G1 EXCEPT !.formatted_address = ABSENT, !.adcode = ABSENT]

PoiKeys == <<"name", "type", "address", "location", "tel", "distance", "business_area">>
PoiNames == <<"poi1", "poi2", "poi3", "poi4", "poi5", "poi6", "poi7", "poi8">>
Poi(i) == [name |-> PoiNames[i], type |-> "ptype", address |-> "paddr", location |-> "ploc",
           tel |-> "ptel", distance |-> "pdist", business_area |-> "parea"]
\* the provider's POI lists: POIs 1..n in order, or n..1
PoiLists == {[i \in 1..n |-> Poi(i)] : n \in 0..MaxPois}
              \cup {[i \in 1..n |-> Poi(n + 1 - i)] : n \in 2..MaxPois}

AddressComponentKeys == <<"country", "province", "city", "district", "township">>
AC1 == [kind |-> "object", country |-> "country1", province |-> "prov1", city |-> "city1",
        district |-> "dist1", township |-> "town1"]
ACAbsent == [kind |-> "absent", country |-> ABSENT, province |-> ABSENT, city |-> ABSENT,
             district |-> ABSENT, township |-> ABSENT]
RegeoAbsent == [kind |-> "absent", formatted_address |-> ABSENT, addressComponent |-> ACAbsent,
                pois |-> JAbsent]
Regeo(ac, pois) == [kind |-> "object", formatted_address |-> "addr1", addressComponent |-> ac,
                    pois |-> pois]

StepKeys == <<"instruction", "road", "distance", "duration", "action">>
Step1 == [instruction |-> "instr1", road |-> "road1", distance |-> "sdist1", duration |-> "sdur1",
          action |-> "act1"]
Step2 == [instruction |-> "instr2", road |-> "road2", distance |-> "sdist2", duration |-> "sdur2",
          action |-> "act2"]
PathKeys == <<"distance", "duration", "tolls", "toll_distance">>
Path1 == [distance |-> "dist1", duration |-> "dur1", tolls |-> "toll1", toll_distance |-> "tdist1",
          steps |-> JArray(<<Step1, Step2>>)]
Path2 == [distance |-> "dist2", duration |-> "dur2", tolls |-> "toll2", toll_distance |-> "tdist2",
          steps |-> JArray(<<Step2>>)]
PathNoSteps == [Path1 EXCEPT !.steps = JAbsent]
RouteAbsent == [kind |-> "absent", paths |-> JAbsent]
Route(paths) == [kind |-> "object", paths |-> paths]

LiveKeys == <<"province", "city", "adcode", "weather", "temperature", "winddirection",
              "windpower", "humidity", "reporttime">>
L1 == [province |-> "prov1", city |-> "city1", adcode |-> "110105", weather |-> "sunny",
       temperature |-> "21", winddirection |-> "north", windpower |-> "3", humidity |-> "40",
       reporttime |-> "time1"]
L2 == [L1 EXCEPT !.city = "city2", !.adcode = "310101", !.weather = "rain"]
\* a live record that lacks a field the envelope schema declares
LBad == [L1 EXCEPT !.humidity = ABSENT]
ForecastKeys == <<"city", "adcode", "province", "reporttime", "casts">>
F1 == [city |-> "city1", adcode |-> "110105", province |-> "prov1", reporttime |-> "time1",
       casts |-> "casts1"]

\* the envelope's status: the success sentinel, a failure, missing, not a string
Statuses == {"1", "0", ABSENT, NONSTR}
\* the envelope's message: a diagnostic, the empty string, missing
Infos == {"INVALID_USER_KEY", "", ABSENT}

NoPayload == [geocodes |-> JAbsent, regeocode |-> RegeoAbsent, pois |-> JAbsent,
              count |-> ABSENT, suggestion |-> ABSENT, route |-> RouteAbsent,
              lives |-> JAbsent, forecasts |-> JAbsent]

GeoPayloads ==
    {[NoPayload EXCEPT !.geocodes = g] :
        g \in {JAbsent, JString, JObject, JArray(<<GBad>>)}
              \cup {JArray(s) : s \in SeqsUpTo({G1, G2}, MaxMatches)}}
RegeoPayloads ==
    {[NoPayload EXCEPT !.regeocode = r] :
        r \in {RegeoAbsent}
              \cup {Regeo(ac, p) : ac \in {AC1, ACAbsent},
                                   p \in {JAbsent} \cup {JArray(l) : l \in PoiLists}}}
PlacePayloads ==
    {[NoPayload EXCEPT !.pois = p, !.count = c, !.suggestion = "sugg1"] :
        p \in {JAbsent, JString} \cup {JArray(l) : l \in PoiLists}, c \in {"7", ABSENT}}
DrivingPayloads ==
    {[NoPayload EXCEPT !.route = r] :
        r \in {RouteAbsent}
              \cup {Route(p) : p \in {JAbsent, JArray(<<>>), JArray(<<Path1>>),
                                      JArray(<<Path1, Path2>>), JArray(<<Path2, Path1>>),
                                      JArray(<<PathNoSteps>>)}}}
WeatherPayloads ==
    {[NoPayload EXCEPT !.lives = l, !.forecasts = f] :
        l \in {JAbsent, JString, JObject, JArray(<<LBad>>)}
              \cup {JArray(s) : s \in SeqsUpTo({L1, L2}, MaxMatches)},
        f \in {JAbsent, JArray(<<>>), JArray(<<F1>>)}}

Payloads(endpoint) ==
    CASE endpoint = "geocode/geo" -> GeoPayloads
      [] endpoint = "geocode/regeo" -> RegeoPayloads
      [] endpoint = "place/text" -> PlacePayloads
      [] endpoint = "direction/driving" -> DrivingPayloads
      [] OTHER -> WeatherPayloads

\* a response body: not JSON, the JSON value null, or a JSON object
Body(json, status, info, payload) ==
    [json |-> json, status |-> status, info |-> info,
     infocode |-> IF status = "1" THEN "10000" ELSE "10001", payload |-> payload]
Bodies(endpoint) ==
    {Body("invalid", ABSENT, ABSENT, NoPayload), Body("null", ABSENT, ABSENT, NoPayload)}
    \cup {Body("object", s, i, p) : s \in Statuses, i \in Infos, p \in Payloads(endpoint)}

\* the HTTP status codes the provider answers with
HttpStatuses == {200, 500}
\* Response.ok
ResponseOk(status) == status \in 200..299

\* what awaiting fetch(url) yields: a rejection (network error) or a response
NetworkError == [transport |-> "neterr", status |-> 0, body |-> Body("invalid", ABSENT, ABSENT, NoPayload)]
HttpResponse(status, body) == [transport |-> "http", status |-> status, body |-> body]
Responses(endpoint) ==
    {NetworkError} \cup {HttpResponse(s, b) : s \in HttpStatuses, b \in Bodies(endpoint)}

----------------------------------------------------------------------------
(* Revisions, tools, argument schemas. *)

Revisions == {"R0", "R1", "R2", "R3", "R4"}

\* the tools each revision registers with this.server.tool
ToolsOf(r) ==
    CASE r \in {"R0", "R1", "R3"} ->
           {"geocode", "reverse_geocode", "poi_search", "route_planning", "weather"}
      [] r = "R2" -> {"geocode", "reverse_geocode"}
      [] OTHER -> {"geocode", "weather_query"}

Fields == {"address", "city", "longitude", "latitude", "keywords", "types", "page", "offset",
           "origin", "destination", "strategy", "extensions"}
NoArgs == [f \in Fields |-> ABSENT]

\* zod field declarations
ZString == [type |-> "string", required |-> TRUE, default |-> ABSENT, values |-> {}]
ZOptionalString == [type |-> "string", required |-> FALSE, default |-> ABSENT, values |-> {}]
ZNumber == [type |-> "number", required |-> TRUE, default |-> ABSENT, values |-> {}]
ZNumberDefault(d) == [type |-> "number", required |-> FALSE, default |-> d, values |-> {}]
ZEnumDefault(vals, d) == [type |-> "enum", required |-> FALSE, default |-> d, values |-> vals]

\* z.enum(["0", ..., "10"]) of route_planning in R0
StrategyEnum == {"0", "1", "2", "3", "4", "5", "6", "7", "8", "9", "10"}
\* z.enum(["base", "all"]) of weather
ExtensionsEnum == {"base", "all"}

GeocodeSchema == [address |-> ZString, city |-> ZOptionalString]
ReverseGeocodeSchema == [longitude |-> ZNumber, latitude |-> ZNumber]
R0PoiSearchSchema == [keywords |-> ZString, city |-> ZOptionalString, types |-> ZOptionalString,
                      page |-> ZNumberDefault("1"), offset |-> ZNumberDefault("10")]
R1PoiSearchSchema == [keywords |-> ZString, city |-> ZOptionalString, types |-> ZOptionalString]
R0RoutePlanningSchema == [origin |-> ZString, destination |-> ZString,
                          strategy |-> ZEnumDefault(StrategyEnum, "1")]
\* R1 and R3 declare no strategy field
R1RoutePlanningSchema == [origin |-> ZString, destination |-> ZString]
WeatherSchema == [city |-> ZString, extensions |-> ZEnumDefault(ExtensionsEnum, "base")]
WeatherQuerySchema == [city |-> ZString]

\* the parameter schema a revision registers for a tool
Schema(r, t) ==
    CASE t = "geocode" -> GeocodeSchema
      [] t = "reverse_geocode" -> ReverseGeocodeSchema
      [] t = "poi_search" -> (IF r = "R0" THEN R0PoiSearchSchema ELSE R1PoiSearchSchema)
      [] t = "route_planning" -> (IF r = "R0" THEN R0RoutePlanningSchema ELSE R1RoutePlanningSchema)
      [] t = "weather" -> WeatherSchema
      [] OTHER -> WeatherQuerySchema

\* the schema accepts the raw arguments: required fields are there, enums hold a member
SchemaAccepts(schema, raw) ==
    \A f \in DOMAIN schema :
        IF raw[f] = ABSENT THEN ~schema[f].required
        ELSE schema[f].type = "enum" => raw[f] \in schema[f].values

\* the arguments the handler receives: defaults filled in, undeclared keys stripped
SchemaParse(schema, raw) ==
    [f \in Fields |->
        IF f \in DOMAIN schema
        THEN (IF raw[f] = ABSENT THEN schema[f].default ELSE raw[f])
        ELSE ABSENT]

\* the raw arguments a client sends to a tool
QAddress == "Futong East 6"
QCity == "Beijing"
RawArgs(t) ==
    CASE t = "geocode" ->
           {[NoArgs EXCEPT !.address = a, !.city = c] :
               a \in {QAddress, ABSENT}, c \in {QCity, "", ABSENT}}
      [] t = "reverse_geocode" ->
           {[NoArgs EXCEPT !.longitude = "116.48", !.latitude = l] : l \in {"39.99", ABSENT}}
      [] t = "poi_search" ->
           {[NoArgs EXCEPT !.keywords = "cafe", !.city = c, !.types = ty, !.page = pg, !.offset = pg] :
               c \in {QCity, ABSENT}, ty \in {"050000", ABSENT}, pg \in {"2", ABSENT}}
      [] t = "route_planning" ->
           {[NoArgs EXCEPT !.origin = "116.48,39.99", !.destination = "121.47,31.23", !.strategy = s] :
               s \in StrategyEnum \cup {ABSENT, "11", "fastest"}}
      [] t = "weather" ->
           {[NoArgs EXCEPT !.city = QCity, !.extensions = e] :
               e \in ExtensionsEnum \cup {ABSENT, "hourly"}}
      [] OTHER ->
           {[NoArgs EXCEPT !.city = c] : c \in {QCity, ABSENT}}

\* the context a handler runs in: whether it carries an env object, and the
\* value of AMAP_MAPS_API_KEY there (for R0: process.env, which is always there)
Context(hasEnv, key) == [hasEnv |-> hasEnv, key |-> key]
Contexts(r) ==
    {Context(TRUE, k) : k \in {"KEY1", "", ABSENT}}
    \cup (IF r = "R0" THEN {} ELSE {Context(FALSE, ABSENT)})

----------------------------------------------------------------------------
(* Outbound requests. *)

\* URLSearchParams.toString of one value (application/x-www-form-urlencoded)
FormEncode(v) ==
    CASE v = "Futong East 6" -> "Futong+East+6"
      [] v = "116.48,39.99" -> "116.48%2C39.99"
      [] v = "121.47,31.23" -> "121.47%2C31.23"
      [] OTHER -> v

\* encodeURIComponent of one value
EncodeURIComponent(v) ==
    CASE v = "Futong East 6" -> "Futong%20East%206"
      [] v = "116.48,39.99" -> "116.48%2C39.99"
      [] v = "121.47,31.23" -> "121.47%2C31.23"
      [] OTHER -> v

\* `${longitude},${latitude}`
CommaJoin(a, b) == IF a = "116.48" /\ b = "39.99" THEN "116.48,39.99" ELSE "121.47,31.23"

\* new URLSearchParams(...) followed by append(...): the pairs whose condition holds
URLSearchParams(entries) ==
    LET kept == SelectSeq(entries, LAMBDA e : e[3])
    IN [i \in 1..Len(kept) |-> <<kept[i][1], FormEncode(kept[i][2])>>]

NoHeaders == <<>>
JsonHeaders == << <<"Content-Type", "application/json">> >>
Request(endpoint, query, headers) == [endpoint |-> endpoint, query |-> query, headers |-> headers]

----------------------------------------------------------------------------
(* What a handler does between two awaits: it returns a text, throws, or   *)
(* issues a fetch and waits.  A handler is a function of its validated     *)
(* arguments a, its context c and the responses rs it has awaited so far.  *)

NoRequest == Request("", <<>>, <<>>)
Return(text) == [kind |-> "return", text |-> text, message |-> <<>>, request |-> NoRequest]
Throw(message) == [kind |-> "throw", text |-> Undefined, message |-> message, request |-> NoRequest]
Fetch(request) == [kind |-> "fetch", text |-> Undefined, message |-> <<>>, request |-> request]

\* error.message of the errors the runtime raises
ErrFetch == <<"fetch failed">>
ErrJson == <<"Unexpected token in JSON">>
TypeErr(prop) == <<"Cannot read properties of undefined (reading '", prop, "')">>
ErrNotFunction == <<"data.pois.map is not a function">>

\* await fetch(url) rejects, or await response.json() rejects
FetchJsonThrows(r) == r.transport = "neterr" \/ r.body.json = "invalid"
FetchJsonMessage(r) == IF r.transport = "neterr" THEN ErrFetch ELSE ErrJson

\* v is truthy, for a payload field
Truthy(v) == v.kind # "absent"
\* v.length > 0 for a payload field that is there (undefined > 0 is false)
LengthPositive(v) == (v.kind = "array" /\ Len(v.items) > 0) \/ v.kind = "string"
\* v[0].key for a payload field that is there
FirstField(v, key) == IF v.kind = "array" /\ Len(v.items) > 0 THEN v.items[1][key] ELSE ABSENT
\* JSON.stringify(v[0]) for a payload field that is there
StringifyFirst(v, keys) ==
    CASE v.kind = "array" /\ Len(v.items) > 0 -> Text(StringifyRecord(v.items[1], keys))
      [] v.kind = "string" -> Text(<<"\"x\"">>)
      [] OTHER -> Undefined

----------------------------------------------------------------------------
(* R0: src/src/index.ts *)

\* "错误：未设置高德地图API密钥"
R0MsgNoKey == "error: AMap API key is not set"
\* `请求失败：${error.message}`
R0Catch(outcome) ==
    IF outcome.kind = "throw" THEN Return(Text(<<"request failed: ">> \o outcome.message))
    ELSE outcome
\* R0Failure with the provider's message left out
R0FailureNoInfo(prefix, data) == Text(<<prefix, "unknown error">>)

\* `...失败：${data.info || '未知错误'}`
R0Failure(prefix, data) == Text(<<prefix, IF Falsy(data.info) THEN "unknown error" ELSE data.info>>)

R0Geocode(a, c, rs) ==
    LET apiKey == c.key
        query == URLSearchParams(<< <<"key", apiKey, TRUE>>, <<"address", a.address, TRUE>>,
                                     <<"city", a.city, ~Falsy(a.city)>> >>)
        data == rs[1].body
        geocodes == data.payload.geocodes
    IN R0Catch(
        IF Falsy(apiKey) THEN Return(Text(<<R0MsgNoKey>>))
        ELSE IF rs = <<>> THEN Fetch(Request("geocode/geo", query, NoHeaders))
        ELSE IF FetchJsonThrows(rs[1]) THEN Throw(FetchJsonMessage(rs[1]))
        ELSE IF data.json = "null" THEN Throw(TypeErr("status"))
        ELSE IF data.status = "1" /\ ~Truthy(geocodes) THEN Throw(TypeErr("length"))
        ELSE IF data.status = "1" /\ LengthPositive(geocodes)
        THEN Return(Text(StringifyPairs(<<
                 <<"address", FirstField(geocodes, "formatted_address")>>,
                 <<"location", FirstField(geocodes, "location")>>,
                 <<"level", FirstField(geocodes, "level")>>,
                 <<"province", FirstField(geocodes, "province")>>,
                 <<"city", FirstField(geocodes, "city")>>,
                 <<"district", FirstField(geocodes, "district")>> >>)))
        ELSE Return(R0Failure("geocode failed: ", data)))

R0ReverseGeocode(a, c, rs) ==
    LET apiKey == c.key
        location == CommaJoin(a.longitude, a.latitude)
        query == URLSearchParams(<< <<"key", apiKey, TRUE>>, <<"location", location, TRUE>>,
                                     <<"extensions", "all", TRUE>> >>)
        data == rs[1].body
        regeocode == data.payload.regeocode
        ac == regeocode.addressComponent
    IN R0Catch(
        IF Falsy(apiKey) THEN Return(Text(<<R0MsgNoKey>>))
        ELSE IF rs = <<>> THEN Fetch(Request("geocode/regeo", query, NoHeaders))
        ELSE IF FetchJsonThrows(rs[1]) THEN Throw(FetchJsonMessage(rs[1]))
        ELSE IF data.json = "null" THEN Throw(TypeErr("status"))
        ELSE IF data.status = "1" /\ regeocode.kind = "object"
        THEN IF ac.kind = "absent" THEN Throw(TypeErr("country"))
             ELSE Return(Text(
                 <<"{">>
                 \o PairTokens(<< <<"formatted_address", regeocode.formatted_address>>,
                                  <<"country", ac.country>>, <<"province", ac.province>>,
                                  <<"city", ac.city>>, <<"district", ac.district>>,
                                  <<"township", ac.township>> >>)
                 \o (IF regeocode.pois.kind = "array"
                     THEN <<"pois">> \o StringifyItems(Slice0(regeocode.pois.items, 3),
                                                       PoiKeys)
                     ELSE <<>>)
                 \o <<"}">>))
        ELSE Return(R0Failure("reverse geocode failed: ", data)))

R0PoiSearch(a, c, rs) ==
    LET apiKey == c.key
        query == URLSearchParams(<< <<"key", apiKey, TRUE>>, <<"keywords", a.keywords, TRUE>>,
                                     <<"page", a.page, TRUE>>, <<"offset", a.offset, TRUE>>,
                                     <<"extensions", "all", TRUE>>,
                                     <<"city", a.city, ~Falsy(a.city)>>,
                                     <<"types", a.types, ~Falsy(a.types)>> >>)
        data == rs[1].body
        pois == data.payload.pois
    IN R0Catch(
        IF Falsy(apiKey) THEN Return(Text(<<R0MsgNoKey>>))
        ELSE IF rs = <<>> THEN Fetch(Request("place/text", query, NoHeaders))
        ELSE IF FetchJsonThrows(rs[1]) THEN Throw(FetchJsonMessage(rs[1]))
        ELSE IF data.json = "null" THEN Throw(TypeErr("status"))
        ELSE IF data.status = "1" /\ Truthy(pois)
        THEN IF pois.kind # "array" THEN Throw(ErrNotFunction)
             ELSE Return(Text(
                 <<"{">>
                 \o PairTokens(<< <<"count", data.payload.count>>,
                                  <<"suggestion", data.payload.suggestion>> >>)
                 \o <<"pois">>
                 \o StringifyItems(pois.items, PoiKeys)
                 \o <<"}">>))
        ELSE Return(R0Failure("POI search failed: ", data)))

R0RoutePlanning(a, c, rs) ==
    LET apiKey == c.key
        query == URLSearchParams(<< <<"key", apiKey, TRUE>>, <<"origin", a.origin, TRUE>>,
                                     <<"destination", a.destination, TRUE>>,
                                     <<"strategy", a.strategy, TRUE>>,
                                     <<"extensions", "all", TRUE>> >>)
        data == rs[1].body
        route == data.payload.route
        path == route.paths.items[1]
    IN R0Catch(
        IF Falsy(apiKey) THEN Return(Text(<<R0MsgNoKey>>))
        ELSE IF rs = <<>> THEN Fetch(Request("direction/driving", query, NoHeaders))
        ELSE IF FetchJsonThrows(rs[1]) THEN Throw(FetchJsonMessage(rs[1]))
        ELSE IF data.json = "null" THEN Throw(TypeErr("status"))
        ELSE IF data.status = "1" /\ route.kind = "object" /\ ~Truthy(route.paths)
        THEN Throw(TypeErr("length"))
        ELSE IF data.status = "1" /\ route.kind = "object" /\ LengthPositive(route.paths)
        THEN IF ~Truthy(path.steps) THEN Throw(TypeErr("map"))
             ELSE Return(Text(
                 <<"{">>
                 \o PairTokens(<< <<"distance", path.distance>>, <<"duration", path.duration>>,
                                  <<"tolls", path.tolls>>, <<"toll_distance", path.toll_distance>> >>)
                 \o <<"steps">>
                 \o StringifyItems(path.steps.items, StepKeys)
                 \o <<"}">>))
        ELSE Return(R0Failure("route planning failed: ", data)))

R0Weather(a, c, rs) ==
    LET apiKey == c.key
        query == URLSearchParams(<< <<"key", apiKey, TRUE>>, <<"city", a.city, TRUE>>,
                                     <<"extensions", a.extensions, TRUE>> >>)
        data == rs[1].body
    IN R0Catch(
        IF Falsy(apiKey) THEN Return(Text(<<R0MsgNoKey>>))
        ELSE IF rs = <<>> THEN Fetch(Request("weather/weatherInfo", query, NoHeaders))
        ELSE IF FetchJsonThrows(rs[1]) THEN Throw(FetchJsonMessage(rs[1]))
        ELSE IF data.json = "null" THEN Throw(TypeErr("status"))
        ELSE IF data.status = "1" /\ Truthy(data.payload.lives)
        THEN Return(StringifyFirst(data.payload.lives, LiveKeys))
        ELSE IF data.status = "1" /\ Truthy(data.payload.forecasts)
        THEN Return(StringifyFirst(data.payload.forecasts, ForecastKeys))
        ELSE Return(R0Failure("weather query failed: ", data)))

----------------------------------------------------------------------------
(* R1: src/unnamed/part_000:1-150.  R2 (part_000:152-240) registers the    *)
(* geocode and reverse_geocode tools with the same code, line for line.    *)

\* "错误: AMAP_MAPS_API_KEY 未配置"
R1MsgNoKey == "error: AMAP_MAPS_API_KEY is not configured"

\* getApiKey: reads context.env.AMAP_MAPS_API_KEY, a TypeError without env
GetApiKeyThrows(c) == ~c.hasEnv
GetApiKey(c) == c.key

\* handleError: `执行工具时发生错误: ${error.message}`
HandleError(outcome) ==
    IF outcome.kind = "throw"
    THEN Return(Text(<<"error while executing the tool: ">> \o outcome.message))
    ELSE outcome

\* the tokens `${t}` adds to a template literal
TemplateParts(t) == IF t.def THEN t.parts ELSE <<"undefined">>

\* JSON.stringify of a whole regeocode object
StringifyRegeocode(r) ==
    <<"{">>
    \o PairTokens(<< <<"formatted_address", r.formatted_address>> >>)
    \o (IF r.addressComponent.kind = "object"
        THEN <<"addressComponent">> \o StringifyRecord(r.addressComponent, AddressComponentKeys)
        ELSE <<>>)
    \o (IF r.pois.kind = "array"
        THEN <<"pois">> \o StringifyItems(r.pois.items, PoiKeys)
        ELSE <<>>)
    \o <<"}">>

\* JSON.stringify of a whole path object
StringifyPath(p) ==
    <<"{">>
    \o PairTokens([i \in 1..Len(PathKeys) |-> <<PathKeys[i], p[PathKeys[i]]>>])
    \o (IF p.steps.kind = "array"
        THEN <<"steps">> \o StringifyItems(p.steps.items, StepKeys)
        ELSE <<>>)
    \o <<"}">>

\* JSON.stringify(data.route.paths): undefined for undefined
StringifyPaths(v) ==
    IF v.kind = "absent" THEN Undefined
    ELSE Text(<<"[">> \o ConcatAll([i \in 1..Len(v.items) |-> StringifyPath(v.items[i])]) \o <<"]">>)

R1Geocode(a, c, rs) ==
    LET apiKey == GetApiKey(c)
        query == URLSearchParams(<< <<"key", apiKey, TRUE>>, <<"address", a.address, TRUE>>,
                                    <<"city", a.city, ~Falsy(a.city)>> >>)
        data == rs[1].body
        geocodes == data.payload.geocodes
    IN HandleError(
        IF GetApiKeyThrows(c) THEN Throw(TypeErr("AMAP_MAPS_API_KEY"))
        ELSE IF Falsy(apiKey) THEN Return(Text(<<R1MsgNoKey>>))
        ELSE IF rs = <<>> THEN Fetch(Request("geocode/geo", query, NoHeaders))
        ELSE IF FetchJsonThrows(rs[1]) THEN Throw(FetchJsonMessage(rs[1]))
        ELSE IF data.json = "null" THEN Throw(TypeErr("status"))
        ELSE IF data.status = "1" /\ LengthPositive(geocodes)
        THEN Return(Template("query succeeded: \n", StringifyFirst(geocodes, GeocodeKeys)))
        ELSE Return(Text(<<"geocode failed: ", Interp(data.info)>>)))

R1ReverseGeocode(a, c, rs) ==
    LET apiKey == GetApiKey(c)
        query == URLSearchParams(<< <<"key", apiKey, TRUE>>,
                                    <<"location", CommaJoin(a.longitude, a.latitude), TRUE>>,
                                    <<"extensions", "all", TRUE>> >>)
        data == rs[1].body
        regeocode == data.payload.regeocode
    IN HandleError(
        IF GetApiKeyThrows(c) THEN Throw(TypeErr("AMAP_MAPS_API_KEY"))
        ELSE IF Falsy(apiKey) THEN Return(Text(<<R1MsgNoKey>>))
        ELSE IF rs = <<>> THEN Fetch(Request("geocode/regeo", query, NoHeaders))
        ELSE IF FetchJsonThrows(rs[1]) THEN Throw(FetchJsonMessage(rs[1]))
        ELSE IF data.json = "null" THEN Throw(TypeErr("status"))
        ELSE IF data.status = "1" /\ regeocode.kind = "object"
        THEN Return(Template("query succeeded: \n", Text(StringifyRegeocode(regeocode))))
        ELSE Return(Text(<<"reverse geocode failed: ", Interp(data.info)>>)))

R1PoiSearch(a, c, rs) ==
    LET apiKey == GetApiKey(c)
        query == URLSearchParams(<< <<"key", apiKey, TRUE>>, <<"keywords", a.keywords, TRUE>>,
                                    <<"extensions", "all", TRUE>>,
                                    <<"city", a.city, ~Falsy(a.city)>>,
                                    <<"types", a.types, ~Falsy(a.types)>> >>)
        data == rs[1].body
        pois == data.payload.pois
    IN HandleError(
        IF GetApiKeyThrows(c) THEN Throw(TypeErr("AMAP_MAPS_API_KEY"))
        ELSE IF Falsy(apiKey) THEN Return(Text(<<R1MsgNoKey>>))
        ELSE IF rs = <<>> THEN Fetch(Request("place/text", query, NoHeaders))
        ELSE IF FetchJsonThrows(rs[1]) THEN Throw(FetchJsonMessage(rs[1]))
        ELSE IF data.json = "null" THEN Throw(TypeErr("status"))
        ELSE IF data.status = "1" /\ Truthy(pois)
        THEN Return(Text(<<"found ", Interp(data.payload.count), " results: \n">>
                         \o TemplateParts(JsonStringify(pois, PoiKeys))))
        ELSE Return(Text(<<"POI search failed: ", Interp(data.info)>>)))

R1RoutePlanning(a, c, rs) ==
    LET apiKey == GetApiKey(c)
        query == URLSearchParams(<< <<"key", apiKey, TRUE>>, <<"origin", a.origin, TRUE>>,
                                    <<"destination", a.destination, TRUE>>,
                                    <<"extensions", "all", TRUE>> >>)
        data == rs[1].body
        route == data.payload.route
    IN HandleError(
        IF GetApiKeyThrows(c) THEN Throw(TypeErr("AMAP_MAPS_API_KEY"))
        ELSE IF Falsy(apiKey) THEN Return(Text(<<R1MsgNoKey>>))
        ELSE IF rs = <<>> THEN Fetch(Request("direction/driving", query, NoHeaders))
        ELSE IF FetchJsonThrows(rs[1]) THEN Throw(FetchJsonMessage(rs[1]))
        ELSE IF data.json = "null" THEN Throw(TypeErr("status"))
        ELSE IF data.status = "1" /\ LengthPositive(route.paths)
        THEN Return(Template("route planning succeeded: \n",
                             StringifyPaths(route.paths)))
        ELSE Return(Text(<<"route planning failed: ", Interp(data.info)>>)))

R1Weather(a, c, rs) ==
    LET apiKey == GetApiKey(c)
        query == URLSearchParams(<< <<"key", apiKey, TRUE>>, <<"city", a.city, TRUE>>,
                                    <<"extensions", a.extensions, TRUE>> >>)
        data == rs[1].body
    IN HandleError(
        IF GetApiKeyThrows(c) THEN Throw(TypeErr("AMAP_MAPS_API_KEY"))
        ELSE IF Falsy(apiKey) THEN Return(Text(<<R1MsgNoKey>>))
        ELSE IF rs = <<>> THEN Fetch(Request("weather/weatherInfo", query, NoHeaders))
        ELSE IF FetchJsonThrows(rs[1]) THEN Throw(FetchJsonMessage(rs[1]))
        ELSE IF data.json = "null" THEN Throw(TypeErr("status"))
        ELSE IF data.status = "1"
        THEN Return(Template("weather query succeeded: \n",
                 IF a.extensions = "base"
                 THEN JsonStringify(data.payload.lives, LiveKeys)
                 ELSE JsonStringify(data.payload.forecasts,
                                    ForecastKeys)))
        ELSE Return(Text(<<"weather query failed: ", Interp(data.info)>>)))

----------------------------------------------------------------------------
(* R3: src/unnamed/part_000:242-399 *)

\* getApiKey of R3: apiKey || null, a TypeError without env
R3GetApiKeyThrows(c) == ~c.hasEnv
R3GetApiKey(c) == IF Falsy(c.key) THEN ABSENT ELSE c.key

\* amapFetch throws: fetch rejects, the status is not ok, the body is not
\* JSON, the body is null, or the envelope's status is not "1"
AmapFetchThrows(r) ==
    \/ r.transport = "neterr"
    \/ ~ResponseOk(r.status)
    \/ r.body.json # "object"
    \/ r.body.status # "1"
\* error.message of what amapFetch throws
AmapFetchMessage(r) ==
    IF r.transport = "neterr" THEN ErrFetch
    ELSE IF ~ResponseOk(r.status)
    THEN <<"AMap API request failed, status code: ", ToString(r.status)>>
    ELSE IF r.body.json = "invalid" THEN ErrJson
    ELSE IF r.body.json = "null" THEN TypeErr("status")
    ELSE <<"AMap API error: ", Interp(r.body.info), " (info code: ", Interp(r.body.infocode), ")">>

R3Geocode(a, c, rs) ==
    LET apiKey == R3GetApiKey(c)
        query == URLSearchParams(<< <<"key", apiKey, TRUE>>, <<"address", a.address, TRUE>>,
                                    <<"city", a.city, ~Falsy(a.city)>> >>)
        data == rs[1].body
    IN HandleError(
        IF R3GetApiKeyThrows(c) THEN Throw(TypeErr("AMAP_MAPS_API_KEY"))
        ELSE IF Falsy(apiKey) THEN Return(Text(<<R1MsgNoKey>>))
        ELSE IF rs = <<>> THEN Fetch(Request("geocode/geo", query, JsonHeaders))
        ELSE IF AmapFetchThrows(rs[1]) THEN Throw(AmapFetchMessage(rs[1]))
        ELSE Return(Template("query succeeded: \n",
                 JsonStringify(data.payload.geocodes, GeocodeKeys))))

R3ReverseGeocode(a, c, rs) ==
    LET apiKey == R3GetApiKey(c)
        query == URLSearchParams(<< <<"key", apiKey, TRUE>>,
                                    <<"location", CommaJoin(a.longitude, a.latitude), TRUE>>,
                                    <<"extensions", "all", TRUE>> >>)
        regeocode == rs[1].body.payload.regeocode
    IN HandleError(
        IF R3GetApiKeyThrows(c) THEN Throw(TypeErr("AMAP_MAPS_API_KEY"))
        ELSE IF Falsy(apiKey) THEN Return(Text(<<R1MsgNoKey>>))
        ELSE IF rs = <<>> THEN Fetch(Request("geocode/regeo", query, JsonHeaders))
        ELSE IF AmapFetchThrows(rs[1]) THEN Throw(AmapFetchMessage(rs[1]))
        ELSE Return(Template("query succeeded: \n",
                 IF regeocode.kind = "object" THEN Text(StringifyRegeocode(regeocode))
                 ELSE Undefined)))

R3PoiSearch(a, c, rs) ==
    LET apiKey == R3GetApiKey(c)
        query == URLSearchParams(<< <<"key", apiKey, TRUE>>, <<"keywords", a.keywords, TRUE>>,
                                    <<"extensions", "all", TRUE>>,
                                    <<"city", a.city, ~Falsy(a.city)>>,
                                    <<"types", a.types, ~Falsy(a.types)>> >>)
        data == rs[1].body
    IN HandleError(
        IF R3GetApiKeyThrows(c) THEN Throw(TypeErr("AMAP_MAPS_API_KEY"))
        ELSE IF Falsy(apiKey) THEN Return(Text(<<R1MsgNoKey>>))
        ELSE IF rs = <<>> THEN Fetch(Request("place/text", query, JsonHeaders))
        ELSE IF AmapFetchThrows(rs[1]) THEN Throw(AmapFetchMessage(rs[1]))
        ELSE Return(Text(<<"found ", Interp(data.payload.count), " results: \n">>
                         \o TemplateParts(JsonStringify(data.payload.pois,
                                              PoiKeys)))))

R3RoutePlanning(a, c, rs) ==
    LET apiKey == R3GetApiKey(c)
        query == URLSearchParams(<< <<"key", apiKey, TRUE>>, <<"origin", a.origin, TRUE>>,
                                    <<"destination", a.destination, TRUE>>,
                                    <<"extensions", "all", TRUE>> >>)
        route == rs[1].body.payload.route
    IN HandleError(
        IF R3GetApiKeyThrows(c) THEN Throw(TypeErr("AMAP_MAPS_API_KEY"))
        ELSE IF Falsy(apiKey) THEN Return(Text(<<R1MsgNoKey>>))
        ELSE IF rs = <<>> THEN Fetch(Request("direction/driving", query, JsonHeaders))
        ELSE IF AmapFetchThrows(rs[1]) THEN Throw(AmapFetchMessage(rs[1]))
        ELSE IF route.kind = "absent" THEN Throw(TypeErr("paths"))
        ELSE Return(Template("route planning succeeded: \n",
                             StringifyPaths(route.paths))))

R3Weather(a, c, rs) ==
    LET apiKey == R3GetApiKey(c)
        query == URLSearchParams(<< <<"key", apiKey, TRUE>>, <<"city", a.city, TRUE>>,
                                    <<"extensions", a.extensions, TRUE>> >>)
        data == rs[1].body
    IN HandleError(
        IF R3GetApiKeyThrows(c) THEN Throw(TypeErr("AMAP_MAPS_API_KEY"))
        ELSE IF Falsy(apiKey) THEN Return(Text(<<R1MsgNoKey>>))
        ELSE IF rs = <<>> THEN Fetch(Request("weather/weatherInfo", query, JsonHeaders))
        ELSE IF AmapFetchThrows(rs[1]) THEN Throw(AmapFetchMessage(rs[1]))
        ELSE Return(Template("weather query succeeded: \n",
                 IF a.extensions = "base"
                 THEN JsonStringify(data.payload.lives, LiveKeys)
                 ELSE JsonStringify(data.payload.forecasts,
                                    ForecastKeys))))

----------------------------------------------------------------------------
(* R4: src/unnamed/part_000:401-560 *)

\* "错误: AMAP_MAPS_API_KEY 未配置。"
R4MsgNoKey == "error: AMAP_MAPS_API_KEY is not configured."
\* "获取城市adcode时出错。"
R4MsgAdcodeError == "error while fetching the city's adcode."
\* error.message of a ZodError
ErrZod == <<"ZodError: the envelope does not match the schema">>

\* the fields a zod object schema keeps of a geocode match (others are stripped)
ZodGeocodeKeys == <<"formatted_address", "location", "adcode">>

\* z.string() accepts the value
IsString(v) == v # ABSENT /\ v # NONSTR
\* a z.array(z.object({k: z.string(), ...})).optional() field accepts the value
ZodOptionalArrayOk(v, keys) ==
    \/ v.kind = "absent"
    \/ /\ v.kind = "array"
       /\ \A i \in 1..Len(v.items) : \A k \in 1..Len(keys) : IsString(v.items[i][keys[k]])

\* AmapGeocodeResponse.parse(data) succeeds
AmapGeocodeResponseOk(data) ==
    /\ data.json = "object"
    /\ IsString(data.status)
    /\ IsString(data.info)
    /\ ZodOptionalArrayOk(data.payload.geocodes, ZodGeocodeKeys)

\* AmapWeatherResponse.parse(data) succeeds
AmapWeatherResponseOk(data) ==
    /\ data.json = "object"
    /\ IsString(data.status)
    /\ IsString(data.info)
    /\ ZodOptionalArrayOk(data.payload.lives, LiveKeys)

\* R4HasMatch without the test of the envelope's status
R4HasMatchAnyStatus(parsed) ==
    Truthy(parsed.payload.geocodes) /\ Len(parsed.payload.geocodes.items) > 0

\* parsed.status === "1" && parsed.geocodes && parsed.geocodes.length > 0
R4HasMatch(parsed) ==
    /\ parsed.status = "1"
    /\ Truthy(parsed.payload.geocodes)
    /\ Len(parsed.payload.geocodes.items) > 0

R4Geocode(a, c, rs) ==
    LET apiKey == c.key
        query == << <<"address", EncodeURIComponent(a.address)>>,
                    <<"city", EncodeURIComponent(IF Falsy(a.city) THEN "" ELSE a.city)>>,
                    <<"key", apiKey>> >>
        data == rs[1].body
        geocodes == data.payload.geocodes
        try ==
            IF FetchJsonThrows(rs[1]) THEN Throw(FetchJsonMessage(rs[1]))
            ELSE IF ~AmapGeocodeResponseOk(data) THEN Throw(ErrZod)
            ELSE IF R4HasMatch(data)
            THEN Return(Text(StringifyItems(geocodes.items,
                                            ZodGeocodeKeys)))
            ELSE Return(Text(<<"error: ", data.info>>))
    IN IF ~c.hasEnv THEN Throw(TypeErr("AMAP_MAPS_API_KEY"))
       ELSE IF Falsy(apiKey) THEN Return(Text(<<R4MsgNoKey>>))
       ELSE IF rs = <<>> THEN Fetch(Request("geocode/geo", query, NoHeaders))
       ELSE IF try.kind = "throw"
       THEN Return(Text(<<"error while fetching geocode data: ">> \o try.message))
       ELSE try

R4WeatherQuery(a, c, rs) ==
    LET apiKey == c.key
        geocodeQuery == << <<"address", EncodeURIComponent(a.city)>>, <<"key", apiKey>> >>
        geoData == rs[1].body
        geocodes == geoData.payload.geocodes
        adcode == geocodes.items[1].adcode
        weatherQuery == << <<"city", adcode>>, <<"key", apiKey>> >>
        data == rs[2].body
        lives == data.payload.lives
        try ==
            IF FetchJsonThrows(rs[2]) THEN Throw(FetchJsonMessage(rs[2]))
            ELSE IF ~AmapWeatherResponseOk(data) THEN Throw(ErrZod)
            ELSE IF data.status = "1" /\ Truthy(lives) /\ Len(lives.items) > 0
            THEN Return(Text(StringifyRecord(lives.items[1], LiveKeys)))
            ELSE Return(Text(<<"error: ", data.info>>))
    IN IF ~c.hasEnv THEN Throw(TypeErr("AMAP_MAPS_API_KEY"))
       ELSE IF Falsy(apiKey) THEN Return(Text(<<R4MsgNoKey>>))
       ELSE IF rs = <<>> THEN Fetch(Request("geocode/geo", geocodeQuery, NoHeaders))
       ELSE IF FetchJsonThrows(rs[1]) \/ ~AmapGeocodeResponseOk(geoData)
       THEN Return(Text(<<R4MsgAdcodeError>>))
       ELSE IF ~R4HasMatch(geoData)
       THEN Return(Text(<<"cannot find the city: ", a.city>>))
       ELSE IF Len(rs) = 1 THEN Fetch(Request("weather/weatherInfo", weatherQuery, NoHeaders))
       ELSE IF try.kind = "throw"
       THEN Return(Text(<<"error while fetching weather data: ">> \o try.message))
       ELSE try

----------------------------------------------------------------------------
(* The state machine of one invocation. *)

\* the handler a revision registers under a tool name
Handler(r, t, a, c, rs) ==
    CASE r = "R0" /\ t = "geocode" -> R0Geocode(a, c, rs)
      [] r = "R0" /\ t = "reverse_geocode" -> R0ReverseGeocode(a, c, rs)
      [] r = "R0" /\ t = "poi_search" -> R0PoiSearch(a, c, rs)
      [] r = "R0" /\ t = "route_planning" -> R0RoutePlanning(a, c, rs)
      [] r = "R0" /\ t = "weather" -> R0Weather(a, c, rs)
      [] r \in {"R1", "R2"} /\ t = "geocode" -> R1Geocode(a, c, rs)
      [] r \in {"R1", "R2"} /\ t = "reverse_geocode" -> R1ReverseGeocode(a, c, rs)
      [] r = "R1" /\ t = "poi_search" -> R1PoiSearch(a, c, rs)
      [] r = "R1" /\ t = "route_planning" -> R1RoutePlanning(a, c, rs)
      [] r = "R1" /\ t = "weather" -> R1Weather(a, c, rs)
      [] r = "R3" /\ t = "geocode" -> R3Geocode(a, c, rs)
      [] r = "R3" /\ t = "reverse_geocode" -> R3ReverseGeocode(a, c, rs)
      [] r = "R3" /\ t = "poi_search" -> R3PoiSearch(a, c, rs)
      [] r = "R3" /\ t = "route_planning" -> R3RoutePlanning(a, c, rs)
      [] r = "R3" /\ t = "weather" -> R3Weather(a, c, rs)
      [] r = "R4" /\ t = "geocode" -> R4Geocode(a, c, rs)
      [] OTHER -> R4WeatherQuery(a, c, rs)

----------------------------------------------------------------------------
(* The HTTP entry point: export default { fetch(request, env, ctx) }.     *)
(* A pathname is the sequence of its characters, so that startsWith and   *)
(* === are computed as the code computes them.                            *)

PathRoot == << "/" >>
PathMcp == << "/", "m", "c", "p" >>
PathSse == << "/", "s", "s", "e" >>
PathMcpMessage == PathMcp \o << "/", "m", "e", "s", "s", "a", "g", "e" >>
PathSseMessage == PathSse \o << "/", "m", "e", "s", "s", "a", "g", "e" >>
PathMcpx == PathMcp \o << "x" >>
PathSsex == PathSse \o << "x" >>
PathHealth == << "/", "h", "e", "a", "l", "t", "h" >>
PathUpperMcp == << "/", "M", "C", "P" >>

Pathnames == { PathRoot, PathMcp, PathSse, PathMcpMessage, PathSseMessage,
               PathMcpx, PathSsex, PathHealth, PathUpperMcp }
Methods == { "GET", "POST", "DELETE" }

\* String.prototype.startsWith
StartsWith(s, prefix) ==
    /\ Len(s) >= Len(prefix)
    /\ SubSeq(s, 1, Len(prefix)) = prefix

HttpRequest(pathname, method) == [pathname |-> pathname, method |-> method]

\* what fetch returns: either what the MCP server answers (to names the
\* served method the request was handed to), or its own Response
Forward(to) == [to |-> to, status |-> 0, body |-> ""]
OwnResponse(body, status) == [to |-> "none", status |-> status, body |-> body]

\* new Response("Not found", { status: 404 })
BodyNotFound == "Not found"
\* new Response("路径未找到 (Not Found)", { status: 404 })
BodyNotFoundZh == "LuJingWeiZhaoDao (Not Found)"

\* src/index.ts: only "/mcp" and "/" are served, both by the MCP server
R0DefaultFetch(request) ==
    IF request.pathname = PathMcp \/ request.pathname = PathRoot
    THEN Forward("mcp.fetch")
    ELSE OwnResponse(BodyNotFound, 404)

\* part_000, first and second revision
R1DefaultFetch(request) ==
    IF StartsWith(request.pathname, PathMcp) THEN Forward("mcp.fetch")
    ELSE IF StartsWith(request.pathname, PathSse) THEN Forward("sse.fetch")
    ELSE OwnResponse(BodyNotFoundZh, 404)

\* part_000, third revision; nothing in the try block throws before the
\* request is handed over, so the catch branch (status 500) is not taken here
R3DefaultFetch(request) ==
    IF StartsWith(request.pathname, PathSse) THEN Forward("sse.fetch")
    ELSE IF StartsWith(request.pathname, PathMcp)
         THEN IF request.method = "GET" THEN Forward("mcp.manifest") ELSE Forward("mcp.fetch")
    ELSE OwnResponse(BodyNotFoundZh, 404)

\* part_000, fourth revision
R4DefaultFetch(request) ==
    IF StartsWith(request.pathname, PathSse) THEN Forward("sse.fetch")
    ELSE IF StartsWith(request.pathname, PathMcp)
         THEN IF request.method = "GET" THEN Forward("mcp.manifest") ELSE Forward("mcp.fetch")
    ELSE OwnResponse(BodyNotFound, 404)

DefaultFetch(r, request) ==
    CASE r = "R0" -> R0DefaultFetch(request)
      [] r \in {"R1", "R2"} -> R1DefaultFetch(request)
      [] r = "R3" -> R3DefaultFetch(request)
      [] OTHER -> R4DefaultFetch(request)

\* no request is being served
NoHttp == [rev |-> "R0", request |-> HttpRequest(<<>>, "GET"), served |-> FALSE,
           response |-> Forward("none")]

\* the value a handler returns: { content: [{ type: "text", text }] }
ToolResult(text) == [content |-> << [type |-> "text", text |-> text] >>]
NoResult == [content |-> <<>>]

\* Two invocations in flight at once, each in its own handler closure. What
\* a handler holds is the closure's own: its arguments, its context, the
\* requests it issued, the responses the provider gave it, and data, the
\* values its awaits yielded (const response, const data).
Procs == {"h1", "h2"}
Idle == [pc |-> "idle", rev |-> "R0", tool |-> "geocode", args |-> NoArgs, params |-> NoArgs,
         ctx |-> Context(TRUE, ABSENT), requests |-> <<>>, responses |-> <<>>,
         data |-> <<>>, result |-> NoResult]

\* the calls and the provider answers of the concurrent model: a sample of
\* the calls and of Responses(endpoint) above
ConcRevisions == {"R0", "R3", "R4"}
ConcTools == {"geocode", "weather", "weather_query"}
ConcArgs(t) ==
    IF t = "geocode" THEN [NoArgs EXCEPT !.address = QAddress, !.city = QCity]
    ELSE [NoArgs EXCEPT !.city = QCity]
ConcContexts(r) ==
    Contexts(r) \cap {Context(TRUE, "KEY1"), Context(TRUE, ABSENT), Context(FALSE, ABSENT)}
ConcCalls ==
    UNION {{<<r, t, ConcArgs(t), c>> : t \in ToolsOf(r) \cap ConcTools, c \in ConcContexts(r)} :
               r \in ConcRevisions}
ConcPayloads ==
    {[NoPayload EXCEPT !.geocodes = JArray(<<G1>>)],
     [NoPayload EXCEPT !.geocodes = JArray(<<G2>>)],
     [NoPayload EXCEPT !.lives = JArray(<<L1>>), !.forecasts = JArray(<<F1>>)],
     [NoPayload EXCEPT !.lives = JArray(<<L2>>)]}
ConcResponses(endpoint) ==
    Responses(endpoint) \cap
        ({NetworkError} \cup
         {HttpResponse(200, Body("object", st, "INVALID_USER_KEY", pl)) :
              st \in {"1", "0"}, pl \in ConcPayloads})

Init ==
    /\ pc = "idle"
    /\ rev = "R0"
    /\ tool = "geocode"
    /\ args = NoArgs
    /\ params = NoArgs
    /\ ctx = Context(TRUE, ABSENT)
    /\ requests = <<>>
    /\ responses = <<>>
    /\ result = NoResult
    /\ http = NoHttp
    /\ inv = [p \in Procs |-> Idle]

\* Continue with every request issued a second time
ContinueReissuing(outcome) ==
    /\ pc' = CASE outcome.kind = "return" -> "done"
               [] outcome.kind = "throw" -> "thrown"
               [] OTHER -> "awaiting"
    /\ result' = IF outcome.kind = "return" THEN ToolResult(outcome.text) ELSE NoResult
    /\ requests' = IF outcome.kind = "fetch"
                   THEN requests \o <<outcome.request, outcome.request>>
                   ELSE requests

\* the handler ran up to its next await, its return or its throw
Continue(outcome) ==
    /\ pc' = CASE outcome.kind = "return" -> "done"
               [] outcome.kind = "throw" -> "thrown"
               [] OTHER -> "awaiting"
    /\ result' = IF outcome.kind = "return" THEN ToolResult(outcome.text) ELSE NoResult
    /\ requests' = IF outcome.kind = "fetch" THEN Append(requests, outcome.request) ELSE requests

\* a client calls tool t of revision r with raw arguments: the schema is
\* checked, and the handler runs only when it accepts them
Invoke(r, t, raw, c) ==
    /\ pc = "idle"
    /\ rev' = r
    /\ tool' = t
    /\ args' = raw
    /\ ctx' = c
    /\ responses' = <<>>
    /\ IF SchemaAccepts(Schema(r, t), raw)
       THEN /\ params' = SchemaParse(Schema(r, t), raw)
            /\ Continue(Handler(r, t, SchemaParse(Schema(r, t), raw), c, <<>>))
       ELSE /\ params' = NoArgs
            /\ pc' = "rejected"
            /\ UNCHANGED <<requests, result>>
    /\ UNCHANGED <<http, inv>>

\* the ways the awaited fetch can settle
Settlements == IF pc = "awaiting" THEN Responses(requests[Len(requests)].endpoint) ELSE {}

\* the awaited fetch settles and the handler resumes
Respond(resp) ==
    /\ pc = "awaiting"
    /\ responses' = Append(responses, resp)
    /\ Continue(Handler(rev, tool, params, ctx, Append(responses, resp)))
    /\ UNCHANGED <<rev, tool, args, params, ctx, http, inv>>

\* the invocation is over; the next one starts from nothing
Reset ==
    /\ pc \in {"done", "thrown", "rejected"}
    /\ pc' = "idle"
    /\ rev' = "R0"
    /\ tool' = "geocode"
    /\ args' = NoArgs
    /\ params' = NoArgs
    /\ ctx' = Context(TRUE, ABSENT)
    /\ requests' = <<>>
    /\ responses' = <<>>
    /\ result' = NoResult
    /\ UNCHANGED <<http, inv>>

Next ==
    \/ \E r \in Revisions : \E t \in ToolsOf(r) : \E raw \in RawArgs(t) : \E c \in Contexts(r) :
           Invoke(r, t, raw, c)
    \/ \E resp \in Settlements : Respond(resp)
    \/ Reset

Spec == Init /\ [][Next]_vars

\* the entry point of revision r serves one HTTP request
Serve(r, pathname, method) ==
    /\ ~http.served
    /\ http' = [rev |-> r, request |-> HttpRequest(pathname, method), served |-> TRUE,
                response |-> DefaultFetch(r, HttpRequest(pathname, method))]
    /\ UNCHANGED <<pc, rev, tool, args, params, ctx, requests, responses, result, inv>>

\* the response has been sent; the entry point keeps nothing of the request
Close ==
    /\ http.served
    /\ http' = NoHttp
    /\ UNCHANGED <<pc, rev, tool, args, params, ctx, requests, responses, result, inv>>

EntryNext ==
    \/ \E r \in Revisions : \E pathname \in Pathnames : \E method \in Methods :
           Serve(r, pathname, method)
    \/ Close

EntrySpec == Init /\ [][EntryNext]_vars

\* Awaited reading one binding shared by every handler: what the other
\* handler's awaits yielded
AwaitedShared(p) == inv[CHOOSE q \in Procs : q # p].data

\* the values handler p's awaits have yielded so far
Awaited(p) == inv[p].data

\* NewInvocation with the bindings of the handler's earlier invocation kept
NewInvocationStale(h, call) ==
    [pc |-> "running", rev |-> call[1], tool |-> call[2], args |-> call[3],
     params |-> SchemaParse(Schema(call[1], call[2]), call[3]), ctx |-> call[4],
     requests |-> <<>>, responses |-> <<>>, data |-> h.data, result |-> NoResult]

\* the closure of a new invocation: its const bindings hold nothing yet,
\* whatever the handler h ran before
NewInvocation(h, call) ==
    [pc |-> "running", rev |-> call[1], tool |-> call[2], args |-> call[3],
     params |-> SchemaParse(Schema(call[1], call[2]), call[3]), ctx |-> call[4],
     requests |-> <<>>, responses |-> <<>>, data |-> <<>>, result |-> NoResult]

\* a client calls a tool while the other handler may be anywhere
CInvoke(p, call) ==
    /\ inv[p].pc \in {"idle", "done", "thrown"}
    /\ SchemaAccepts(Schema(call[1], call[2]), call[3])
    /\ inv' = [inv EXCEPT ![p] = NewInvocation(inv[p], call)]
    /\ UNCHANGED <<pc, rev, tool, args, params, ctx, requests, responses, result, http>>

\* handler p runs from where it stands (its entry, or the await that just
\* settled) to its next await, its return or its throw: it reads its
\* credential, issues its request, or returns its result
CRun(p) ==
    /\ inv[p].pc = "running"
    /\ LET h == inv[p]
           outcome == Handler(h.rev, h.tool, h.params, h.ctx, Awaited(p))
       IN inv' = [inv EXCEPT ![p] =
              [h EXCEPT !.pc = CASE outcome.kind = "return" -> "done"
                                 [] outcome.kind = "throw" -> "thrown"
                                 [] OTHER -> "awaiting",
                        !.result = IF outcome.kind = "return" THEN ToolResult(outcome.text)
                                   ELSE NoResult,
                        !.requests = IF outcome.kind = "fetch" THEN Append(@, outcome.request)
                                     ELSE @]]
    /\ UNCHANGED <<pc, rev, tool, args, params, ctx, requests, responses, result, http>>

\* the ways handler p's awaited fetch can settle
CSettlements(p) ==
    IF inv[p].pc = "awaiting"
    THEN ConcResponses(inv[p].requests[Len(inv[p].requests)].endpoint)
    ELSE {}

\* the provider answers handler p's request; the await yields the answer
CReceive(p, resp) ==
    /\ inv[p].pc = "awaiting"
    /\ inv' = [inv EXCEPT ![p] = [@ EXCEPT !.pc = "running",
                                           !.responses = Append(@, resp),
                                           !.data = Append(@, resp)]]
    /\ UNCHANGED <<pc, rev, tool, args, params, ctx, requests, responses, result, http>>

ConcNext ==
    \E p \in Procs :
        \/ \E call \in ConcCalls : CInvoke(p, call)
        \/ CRun(p)
        \/ \E resp \in CSettlements(p) : CReceive(p, resp)

ConcSpec == Init /\ [][ConcNext]_vars

----------------------------------------------------------------------------
(* Vocabulary of the properties. *)

\* the handler was invoked (the schema accepted the arguments)
Invoked == pc \in {"awaiting", "done", "thrown"}
\* the text of the returned result
ResultText == result.content[1].text
\* the last response the handler awaited
LastResponse == responses[Len(responses)]
\* the text includes the string s
Includes(text, s) == text.def /\ (s = "" \/ \E i \in 1..Len(text.parts) : text.parts[i] = s)

\* the configuration-error message of each revision
ConfigErrorText ==
    Text(<< CASE rev = "R0" -> "error: AMap API key is not set"
              [] rev = "R4" -> "error: AMAP_MAPS_API_KEY is not configured."
              [] OTHER -> "error: AMAP_MAPS_API_KEY is not configured" >>)

\* how the text of a failure result starts
ProviderFailurePrefixes ==
    {"geocode failed: ", "reverse geocode failed: ", "POI search failed: ",
     "route planning failed: ", "weather query failed: ", "error: "}
ErrorPrefixes ==
    {"request failed: ", "error while executing the tool: ",
     "error while fetching geocode data: ", "error while fetching weather data: ",
     "error while fetching the city's adcode."}
CityNotFoundPrefix == "cannot find the city: "
IsFailureText(text) ==
    /\ text.def
    /\ text.parts[1] \in ProviderFailurePrefixes \cup ErrorPrefixes \cup {CityNotFoundPrefix}
\* a success result: a defined text that is no failure text (a result whose
\* text is undefined is neither)
IsSuccessText(text) == text.def /\ ~IsFailureText(text)

----------------------------------------------------------------------------
(* C1 *)

----------------------------------------------------------------------------
(* C2 *)

\* C2: no invocation of a handler ends by throwing (rejecting): whatever the
\* tool, the context, the transport outcome and the response body, the
\* handler returns a result.
C2_NoEscape == pc # "thrown"

----------------------------------------------------------------------------
(* C3 *)

\* the handler has received an envelope whose status field is there and is
\* not "1", and whose info field is there
ProviderReportedFailure ==
    /\ responses # <<>>
    /\ LastResponse.transport = "http"
    /\ LastResponse.body.json = "object"
    /\ LastResponse.body.status \notin {"1", ABSENT}
    /\ LastResponse.body.info # ABSENT

\* C3 as stated: for every tool, an envelope whose status is not "1" yields
\* a failure result whose text includes the envelope's info.
C3_Original ==
    ProviderReportedFailure =>
        /\ pc = "done"
        /\ IsFailureText(ResultText)
        /\ Includes(ResultText, LastResponse.body.info)

\* the response is the answer to weather_query's intermediate geocode lookup
IsAdcodeLookup == tool = "weather_query" /\ Len(responses) = 1

\* C3 as amended: an envelope whose status is not "1" yields a failure result
\* (never a success payload) whose text includes the envelope's info,
\* provided R3 got a 2xx response (otherwise it reports the HTTP status) and,
\* in R4, the envelope passes the endpoint's schema (otherwise it reports the
\* parse error); and except for weather_query's intermediate geocode lookup,
\* whose failure is reported as the city-not-found message.
C3_ProviderFailure ==
    LET r == LastResponse
        schemaOk == IF IsAdcodeLookup \/ tool = "geocode"
                    THEN AmapGeocodeResponseOk(r.body)
                    ELSE AmapWeatherResponseOk(r.body)
    IN (/\ ProviderReportedFailure
        /\ rev = "R3" => ResponseOk(r.status)
        /\ rev = "R4" => schemaOk)
       => /\ pc = "done"
          /\ IsFailureText(ResultText)
          /\ IF IsAdcodeLookup
             THEN ResultText = Text(<<CityNotFoundPrefix, params.city>>)
             ELSE Includes(ResultText, r.body.info)

\* the provider refused the key and the handler forwarded its message
C3_Witness ==
    /\ pc = "done"
    /\ rev = "R0"
    /\ tool = "route_planning"
    /\ ProviderReportedFailure
    /\ LastResponse.body.status = "0"
    /\ LastResponse.body.info = "INVALID_USER_KEY"
    /\ ResultText = Text(<<"route planning failed: ", "INVALID_USER_KEY">>)

----------------------------------------------------------------------------
(* C4 *)

\* the awaited fetch failed in transport: it rejected, or the status is not 2xx
TransportFailure ==
    /\ responses # <<>>
    /\ \/ LastResponse.transport = "neterr"
       \/ ~(LastResponse.status \in 200..299)

\* C4: a transport failure (network error or non-2xx status) yields a
\* failure result; a non-2xx response never produces a success result,
\* whatever its body holds.
C4_TransportFailure ==
    TransportFailure => (pc = "done" /\ ~IsSuccessText(ResultText))

----------------------------------------------------------------------------
(* C5 *)

\* a list field of the envelope that is there but is no array, or holds an
\* element without one of the fields in keys
MalformedList(v, keys) ==
    \/ v.kind \in {"string", "object"}
    \/ /\ v.kind = "array"
       /\ \E i \in 1..Len(v.items) : \E k \in 1..Len(keys) : v.items[i][keys[k]] = ABSENT

\* the envelope the handler received does not have the shape its endpoint
\* is expected to answer with
MalformedEnvelope ==
    /\ responses # <<>>
    /\ LastResponse.transport = "http"
    /\ LET b == LastResponse.body
           p == b.payload
           e == requests[Len(responses)].endpoint
       IN \/ b.json = "null"
          \/ /\ b.json = "object"
             /\ \/ b.status \in {ABSENT, NONSTR}
                \/ e = "geocode/geo" /\ MalformedList(p.geocodes, <<"formatted_address", "location">>)
                \/ e = "geocode/regeo" /\ p.regeocode.kind = "object"
                      /\ p.regeocode.addressComponent.kind = "absent"
                \/ e = "place/text" /\ p.pois.kind = "string"
                \/ e = "direction/driving" /\ p.route.kind = "object"
                      /\ \/ p.route.paths.kind = "absent"
                         \/ \E i \in 1..Len(p.route.paths.items) :
                                p.route.paths.items[i].steps.kind = "absent"
                \/ e = "weather/weatherInfo" /\ MalformedList(p.lives, <<"humidity">>)

\* C5: an envelope that does not match the expected shape yields a failure
\* result carrying a parse-error message, never a success result.
C5_MalformedEnvelope ==
    MalformedEnvelope => (pc = "done" /\ ~IsSuccessText(ResultText))

----------------------------------------------------------------------------
(* C6 *)

\* C6: every returned result has exactly one content block, of type "text",
\* whose text is a defined string.
C6_OneTextBlock ==
    pc = "done" =>
        /\ Len(result.content) = 1
        /\ result.content[1].type = "text"
        /\ result.content[1].text.def

----------------------------------------------------------------------------
(* C7 *)

\* weather_query's intermediate geocode lookup was answered with an envelope
\* that yields no match: its status is not "1", or geocodes is absent or empty
LookupWithoutMatch ==
    /\ tool = "weather_query"
    /\ responses # <<>>
    /\ responses[1].transport = "http"
    /\ responses[1].body.json = "object"
    /\ \/ responses[1].body.status # "1"
       \/ responses[1].body.payload.geocodes.kind = "absent"
       \/ responses[1].body.payload.geocodes = JArray(<<>>)

\* the lookup's envelope passes the schema: status and info are strings,
\* geocodes is absent or an array of matches with their three string fields
LookupEnvelopeValid ==
    LET b == responses[1].body
        g == b.payload.geocodes
    IN /\ responses[1].transport = "http"
       /\ b.json = "object"
       /\ b.status \notin {ABSENT, NONSTR}
       /\ b.info \notin {ABSENT, NONSTR}
       /\ g.kind \in {"absent", "array"}
       /\ \A i \in 1..Len(g.items) :
              /\ g.items[i].formatted_address # ABSENT
              /\ g.items[i].location # ABSENT
              /\ g.items[i].adcode # ABSENT

\* the weather endpoint is requested only as the second request, after a
\* lookup response with at least one match, with the first match's adcode
WeatherRequestedOnlyAfterMatch ==
    tool = "weather_query" =>
        \A i \in 1..Len(requests) :
            requests[i].endpoint = "weather/weatherInfo" =>
                /\ i = 2
                /\ responses # <<>>
                /\ responses[1].body.status = "1"
                /\ responses[1].body.payload.geocodes.kind = "array"
                /\ Len(responses[1].body.payload.geocodes.items) >= 1
                /\ requests[i].query[1] =
                       <<"city", responses[1].body.payload.geocodes.items[1].adcode>>

\* C7 as stated: a lookup without match ends the invocation with the
\* city-not-found message and without a request to the weather endpoint.
C7_Original ==
    /\ LookupWithoutMatch =>
           /\ pc = "done"
           /\ ResultText = Text(<<CityNotFoundPrefix, params.city>>)
           /\ Len(requests) = 1
    /\ WeatherRequestedOnlyAfterMatch

\* C7 as amended: a lookup answered with a schema-valid envelope without
\* match ends the invocation with the city-not-found message; a lookup that
\* fails otherwise (network error, body that is no JSON, envelope that does
\* not pass the schema) ends it with the adcode-lookup error message; in
\* both cases the weather endpoint is not requested, and it is requested
\* only after a lookup response with a match, with the first match's adcode.
C7_CityNotFound ==
    /\ (LookupWithoutMatch /\ LookupEnvelopeValid) =>
           /\ pc = "done"
           /\ ResultText = Text(<<CityNotFoundPrefix, params.city>>)
           /\ Len(requests) = 1
    /\ (tool = "weather_query" /\ responses # <<>> /\ ~LookupEnvelopeValid) =>
           /\ pc = "done"
           /\ ResultText = Text(<<"error while fetching the city's adcode.">>)
           /\ Len(requests) = 1
    /\ WeatherRequestedOnlyAfterMatch

\* the provider answered the lookup with status "0" and a match list, and the
\* invocation ended with the city-not-found message after one request
C7_Witness ==
    /\ pc = "done"
    /\ LookupWithoutMatch
    /\ LookupEnvelopeValid
    /\ responses[1].body.status = "0"
    /\ responses[1].body.payload.geocodes = JArray(<<G1>>)
    /\ ResultText = Text(<<CityNotFoundPrefix, "Beijing">>)
    /\ Len(requests) = 1

----------------------------------------------------------------------------
(* C8 *)

\* C8: a route_planning invocation whose strategy is outside "0".."10" is
\* rejected by the schema and issues no request; one that omits strategy
\* requests the route with strategy "1".
C8_StrategyValidated ==
    (tool = "route_planning" /\ pc # "idle") =>
        /\ args.strategy \notin {"0", "1", "2", "3", "4", "5", "6", "7", "8", "9", "10", ABSENT}
               => (pc = "rejected" /\ requests = <<>>)
        /\ (args.strategy = ABSENT /\ requests # <<>>)
               => \E i \in 1..Len(requests[1].query) : requests[1].query[i] = <<"strategy", "1">>

----------------------------------------------------------------------------
(* C9 *)

\* the names of the POIs a text lists, in the text's order
PoiNamesIn(text) == SelectSeq(text.parts, LAMBDA t : \E i \in 1..Len(PoiNames) : t = PoiNames[i])

\* reverse_geocode received a successful response: 2xx, status "1", a
\* regeocode object with its address component and a POI list
ReverseGeocodeSucceeded ==
    /\ tool = "reverse_geocode"
    /\ responses # <<>>
    /\ LastResponse.transport = "http"
    /\ LastResponse.status \in 200..299
    /\ LastResponse.body.json = "object"
    /\ LastResponse.body.status = "1"
    /\ LastResponse.body.payload.regeocode.kind = "object"
    /\ LastResponse.body.payload.regeocode.addressComponent.kind = "object"
    /\ LastResponse.body.payload.regeocode.pois.kind = "array"

\* C9: on a successful response the result lists at most 3 POIs, the first
\* 3 of the provider's list in the provider's order.
C9_PoisTruncated ==
    ReverseGeocodeSucceeded =>
        LET pois == LastResponse.body.payload.regeocode.pois.items
            n == IF Len(pois) < 3 THEN Len(pois) ELSE 3
        IN /\ pc = "done"
           /\ ResultText.def
           /\ PoiNamesIn(ResultText) = [i \in 1..n |-> pois[i].name]

----------------------------------------------------------------------------
(* C10 *)

\* geocode received a well-formed response with status "1" and a match
GeocodeSucceeded ==
    /\ tool = "geocode"
    /\ responses # <<>>
    /\ LastResponse.transport = "http"
    /\ LastResponse.status \in 200..299
    /\ LastResponse.body.json = "object"
    /\ LastResponse.body.status = "1"
    /\ LastResponse.body.info \notin {ABSENT, NONSTR}
    /\ LastResponse.body.payload.geocodes.kind = "array"
    /\ Len(LastResponse.body.payload.geocodes.items) >= 1
    /\ \A i \in 1..Len(LastResponse.body.payload.geocodes.items) :
           LastResponse.body.payload.geocodes.items[i] \in {G1, G2}

\* C10: the result text holds the first match's formatted address and
\* coordinate string, and the address and coordinates of no other match.
C10_FirstMatchOnly ==
    GeocodeSucceeded =>
        LET first == LastResponse.body.payload.geocodes.items[1]
        IN /\ pc = "done"
           /\ Includes(ResultText, first.formatted_address)
           /\ Includes(ResultText, first.location)
           /\ \A i \in 1..Len(ResultText.parts) :
                  ResultText.parts[i] \in {G1.formatted_address, G2.formatted_address,
                                           G1.location, G2.location}
                      => ResultText.parts[i] \in {first.formatted_address, first.location}

----------------------------------------------------------------------------
(* C11 *)

\* the pathname is "/mcp" or "/sse", or lies below one of them
OnServedPath(pathname) ==
    \/ pathname \in {PathMcp, PathSse}
    \/ StartsWith(pathname, PathMcp \o << "/" >>)
    \/ StartsWith(pathname, PathSse \o << "/" >>)

\* C11: at the HTTP entry point, every request whose path is neither the
\* manifest/invocation path /mcp nor the streaming path /sse is answered
\* with status 404 and body "Not found", and is never handed to the MCP
\* server.
C11_OtherPathsNotFound ==
    (http.served /\ ~OnServedPath(http.request.pathname))
        => /\ http.response.to = "none"
           /\ http.response.status = 404
           /\ http.response.body = BodyNotFound

----------------------------------------------------------------------------
(* C14 *)

\* the weather tool got a 2xx response whose envelope reports status "1"
WeatherSucceeded ==
    /\ tool = "weather"
    /\ Len(responses) = 1
    /\ LastResponse.transport = "http"
    /\ LastResponse.status \in 200..299
    /\ LastResponse.body.json = "object"
    /\ LastResponse.body.status = "1"

\* the members only a current-conditions record has, and the member only a
\* forecast record has
LiveOnlyKeys == {"weather", "temperature", "winddirection", "windpower", "humidity"}
ForecastOnlyKeys == {"casts"}
HoldsKeyOf(text, keys) == \E k \in keys : Includes(text, k)

\* C14: on a successful provider response, whatever it holds, the weather
\* tool called with extensions "all" never returns the current-conditions
\* record, and called with extensions "base" (or without extensions, which
\* defaults to "base") never returns the forecast record.
C14_ModeSelectsRecord ==
    (WeatherSucceeded /\ pc = "done") =>
        /\ params.extensions = "all" => ~HoldsKeyOf(ResultText, LiveOnlyKeys)
        /\ params.extensions = "base" => ~HoldsKeyOf(ResultText, ForecastOnlyKeys)

----------------------------------------------------------------------------
(* C12 *)

\* the two handlers ran the same call (revision, tool, arguments,
\* credential) and the provider gave both the same sequence of responses
SameCallSameResponses(p, q) ==
    /\ inv[p].rev = inv[q].rev
    /\ inv[p].tool = inv[q].tool
    /\ inv[p].args = inv[q].args
    /\ inv[p].ctx = inv[q].ctx
    /\ inv[p].responses = inv[q].responses

----------------------------------------------------------------------------
(* C13 *)

\* the handler's environment holds a non-empty AMAP_MAPS_API_KEY
CredentialPresent == ctx.hasEnv /\ ctx.key \notin {ABSENT, ""}

\* the fetch was rejected, its body could not be parsed, or its envelope
\* does not report status "1"
FailedResponse(r) ==
    \/ r.transport = "neterr"
    \/ r.body.json # "object"
    \/ r.body.status # "1"

\* C13: an invocation issues exactly one outbound request when the
\* credential is present and none when it is absent, except weather_query,
\* which issues one or two, the second only after the first response was
\* received; no request is issued after a failed response and no request is
\* issued twice.
C13_RequestCount ==
    Invoked =>
        /\ ~CredentialPresent => Len(requests) = 0
        /\ (CredentialPresent /\ tool # "weather_query") => Len(requests) = 1
        /\ (CredentialPresent /\ tool = "weather_query") => Len(requests) \in {1, 2}
        /\ Len(requests) <= Len(responses) + 1
        /\ \A i \in 1..Len(responses) : FailedResponse(responses[i]) => Len(requests) <= i
        /\ \A i, j \in 1..Len(requests) : i # j => requests[i] # requests[j]

\* weather_query returned after its second request was answered
C13_Witness ==
    /\ pc = "done"
    /\ tool = "weather_query"
    /\ CredentialPresent
    /\ Len(requests) = 2
    /\ Len(responses) = 2

----------------------------------------------------------------------------
(* C15 *)

\* what the invocation of handler h does when it runs alone and the
\* provider has answered with the first k of h's responses
SoloOutcome(h, k) == Handler(h.rev, h.tool, h.params, h.ctx, SubSeq(h.responses, 1, k))

====
